---- MODULE Spec2Model ----
(***************************************************************************)
(* CineVerse: the session store (app/contexts/AuthContext.tsx) over the     *)
(* AsyncStorage key/value store, as a state machine.                        *)
(*                                                                          *)
(* Every async handler is one task; a step of a task is the completion of   *)
(* the storage call it awaits followed by the code up to the next await.    *)
(* Under Spec one task is in flight at a time (the design's rule of one     *)
(* writer per key per turn).  A storage call may reject at any step, and    *)
(* the process may be restarted at any moment.                              *)
(*                                                                          *)
(* WatchlistSpec runs the watchlist handlers of the screens (MovieCard,     *)
(* the two detail screens, WatchlistScreen, the profile screen) over the    *)
(* same store, on an app that has been launched.                            *)
(*                                                                          *)
(* AppSpec runs the session handlers and the watchlist handlers on one      *)
(* store; RegistrationSpec adds the registration of a second person;        *)
(* SessionRaceSpec and WatchlistRaceSpec let two handlers be in flight and  *)
(* interleave their steps.                                                  *)
(***************************************************************************)
EXTENDS Integers, Sequences, FiniteSets, TLC

VARIABLES
    storage,      \* AsyncStorage: key -> stored string (absent keys are not in the domain)
    authState,    \* useReducer state: [isAuthenticated, user, isLoading]
    call,         \* the handler in flight: its position, arguments and locals
    done,         \* what the handler that completed in this very step delivered
    registered,   \* history: the account of the last successful register, while only logouts followed
    seedWrites,   \* history: writes of the seed account and of its credential since the last wipe
    restarts,     \* number of process restarts so far
    calls,        \* number of handler calls the interface made so far
    isInWatchlist,   \* useState of each mounted card and detail screen: component -> flag
    watchlistScreen, \* useState of WatchlistScreen: [watchlist, loading, activeWatchlistType]
    profileScreen,   \* useState of the profile screen: [watchlistStats, loading]
    pending          \* a handler suspended at its await while another one runs (Idle: none)

\* The component state of the screens.
screens == <<isInWatchlist, watchlistScreen, profileScreen>>

vars == <<storage, authState, call, done, registered, seedWrites, restarts, calls,
          isInWatchlist, watchlistScreen, profileScreen, pending>>

(***************************************************************************)
(* Bounds of the model                                                      *)
(***************************************************************************)
MaxUsers == 2      \* register is not started when it would add to a registry of this many entries
MaxClock == 2      \* Date.now() reads 1..MaxClock
MaxRestarts == 1   \* process restarts
MaxCalls == 3      \* calls of login, register, logout, updateUser, clearAllData
MaxOps == 5        \* calls of the watchlist handlers (toggle, check, load, remove, clear)

Clock == 1..MaxClock

(***************************************************************************)
(* Values                                                                   *)
(***************************************************************************)
Null == [kind |-> "null"]

\* A stored value is a string: the JSON text of a value, or some other text.
JSONstringify(v) == [kind |-> "json", val |-> v]
RawString(s) == [kind |-> "string", val |-> s]
\* JSON.parse throws a SyntaxError on a string that is not JSON text.
JSONparses(s) == s.kind = "json"
JSONparse(s) == s.val

CorruptText == RawString("{not json")

AUTH_STORAGE_KEY == "auth_user"
USERS_STORAGE_KEY == "registered_users"
passwordKey(id) == "password_" \o id

DemoEmail == "demo@movieflix.com"
DemoPassword == "demo123"

\* String.prototype.toLowerCase on the e-mail addresses the model uses.
toLowerCase(s) ==
    CASE s = "A@x.com" -> "a@x.com"
      [] s = "Demo@movieflix.com" -> "demo@movieflix.com"
      [] OTHER -> s

\* Date.now().toString() and new Date().toISOString() of a clock reading.
DateToString(t) == ToString(t)
toISOString(t) == "1970-01-01T00:00:00.00" \o ToString(t) \o "Z"

\* Object spread { ...a, ...b }.
Spread(a, b) == [f \in DOMAIN a \cup DOMAIN b |-> IF f \in DOMAIN b THEN b[f] ELSE a[f]]

defaultPreferences == [notifications |-> TRUE, darkMode |-> TRUE, language |-> "en"]

(***************************************************************************)
(* AsyncStorage                                                             *)
(***************************************************************************)
EmptyStorage == [k \in {} |-> Null]

getItem(store, key) == IF key \in DOMAIN store THEN store[key] ELSE Null

\* setItem that keeps no other key.
setItem_only(store, key, value) == [k \in {key} |-> value]

setItem(store, key, value) ==
    [k \in DOMAIN store \cup {key} |-> IF k = key THEN value ELSE store[k]]

\* removeItem that drops every key, as AsyncStorage.clear() would.
removeItem_clear(store, key) == EmptyStorage

removeItem(store, key) == [k \in DOMAIN store \ {key} |-> store[k]]

\* usersData ? JSON.parse(usersData) : []   (the caller checks JSONparses first)
parseUsers(usersData) == IF usersData = Null THEN <<>> ELSE JSONparse(usersData)
usersParse(usersData) == usersData = Null \/ JSONparses(usersData)

\* Array.prototype.find / findIndex: the first index whose element matches, 0 if none.
FirstIndex(S) == IF S = {} THEN 0 ELSE CHOOSE i \in S : \A j \in S : i <= j

findByEmailExact(users, email) ==
    FirstIndex({i \in DOMAIN users : users[i].email = email})

findByEmailLower(users, email) ==
    FirstIndex({i \in DOMAIN users : toLowerCase(users[i].email) = toLowerCase(email)})

findIndexById(users, id) ==
    FirstIndex({i \in DOMAIN users : users[i].id = id})

(***************************************************************************)
(* authReducer and initialState                                             *)
(***************************************************************************)
\* authReducer whose LOGOUT case leaves the user in place.
authReducer_logoutKeepsUser(state, action) ==
    CASE action.type = "SET_LOADING" ->
            [state EXCEPT !.isLoading = action.payload]
      [] action.type = "LOGIN_SUCCESS" ->
            [state EXCEPT !.isAuthenticated = TRUE,
                          !.user = action.payload,
                          !.isLoading = FALSE]
      [] action.type = "LOGOUT" ->
            [state EXCEPT !.isAuthenticated = FALSE,
                          !.isLoading = FALSE]
      [] action.type = "UPDATE_USER" ->
            [state EXCEPT !.user = IF state.user # Null
                                   THEN Spread(state.user, action.payload)
                                   ELSE Null]
      [] OTHER -> state

authReducer(state, action) ==
    CASE action.type = "SET_LOADING" ->
            [state EXCEPT !.isLoading = action.payload]
      [] action.type = "LOGIN_SUCCESS" ->
            [state EXCEPT !.isAuthenticated = TRUE,
                          !.user = action.payload,
                          !.isLoading = FALSE]
      [] action.type = "LOGOUT" ->
            [state EXCEPT !.isAuthenticated = FALSE,
                          !.user = Null,
                          !.isLoading = FALSE]
      [] action.type = "UPDATE_USER" ->
            [state EXCEPT !.user = IF state.user # Null
                                   THEN Spread(state.user, action.payload)
                                   ELSE Null]
      [] OTHER -> state

initialState == [isAuthenticated |-> FALSE, user |-> Null, isLoading |-> TRUE]

SetLoading(state, b) == authReducer(state, [type |-> "SET_LOADING", payload |-> b])
LoginSuccess(state, user) == authReducer(state, [type |-> "LOGIN_SUCCESS", payload |-> user])

(***************************************************************************)
(* Tasks                                                                    *)
(***************************************************************************)
Idle == [op |-> "idle"]
NoResult == [op |-> "none"]

\* What a handler sees when it is called: kept to compare with what it leaves.
Snapshot == [storage |-> storage, authState |-> authState]

\* The handler that mounts with the provider: useEffect(() => initializeApp(), []).
InitializeCall(store, state) ==
    [op |-> "initializeApp", pc |-> "demoGetUsers", failed |-> {},
     pre |-> [storage |-> store, authState |-> state]]

\* The registry as stored (empty when absent).
Registry == parseUsers(getItem(storage, USERS_STORAGE_KEY))

(***************************************************************************)
(* The screens that hold watchlist state                                   *)
(***************************************************************************)
\* Content items as the content API delivers them: a movie has a title, a TV
\* show a name; list endpoints mark TV shows with media_type 'tv'.
MovieX == [id |-> 42, title |-> "X"]
MovieZ == [id |-> 5, title |-> "Z"]
TVShowY == [id |-> 5, name |-> "Y"]

\* The mounted components that hold an isInWatchlist flag: two cards (one of a
\* movie, one of a TV show), two movie detail screens, one TV detail screen.
Components ==
    { [screen |-> "MovieCard", item |-> MovieX],
      [screen |-> "MovieCard", item |-> Spread(TVShowY, [media_type |-> "tv"])],
      [screen |-> "MovieDetailScreen", item |-> MovieX],
      [screen |-> "MovieDetailScreen", item |-> MovieZ],
      [screen |-> "TVShowDetailScreen", item |-> TVShowY] }

\* useState(false) of every card and detail screen.
initialIsInWatchlist == [c \in Components |-> FALSE]

NoGenres == [g \in {} |-> 0]
emptyStats == [totalMovies |-> 0, genres |-> NoGenres, totalRuntime |-> 0]

initialWatchlistScreen == [watchlist |-> <<>>, loading |-> TRUE, activeWatchlistType |-> "all"]
initialProfileScreen == [watchlistStats |-> emptyStats, loading |-> TRUE]

(***************************************************************************)
(* Init: first launch.  The durable store is empty, or holds a session      *)
(* record that is not JSON text (left by something other than this code).   *)
(***************************************************************************)
Init ==
    /\ storage \in {EmptyStorage, setItem(EmptyStorage, AUTH_STORAGE_KEY, CorruptText)}
    /\ authState = initialState
    /\ call = InitializeCall(storage, initialState)
    /\ done = NoResult
    /\ registered = Null
    /\ seedWrites = [users |-> 0, password |-> 0]
    /\ restarts = 0
    /\ calls = 0
    /\ isInWatchlist = initialIsInWatchlist
    /\ watchlistScreen = initialWatchlistScreen
    /\ profileScreen = initialProfileScreen
    /\ pending = Idle

(***************************************************************************)
(* initializeApp = createDemoUserIfNeeded; checkAuthSession                 *)
(***************************************************************************)
newDemoUser(t) ==
    [id |-> "demo-user-" \o DateToString(t),
     email |-> DemoEmail,
     name |-> "Demo User",
     createdAt |-> toISOString(t),
     preferences |-> defaultPreferences]

\* createDemoUserIfNeeded, through its first await and the check that follows.
\* Any throw is caught inside createDemoUserIfNeeded; checkAuthSession runs next.
DemoGetUsers ==
    /\ call.op = "initializeApp" /\ call.pc = "demoGetUsers"
    /\ \E ok \in BOOLEAN, t \in Clock :
         LET usersData == getItem(storage, USERS_STORAGE_KEY) IN
         IF ~ok
         THEN call' = [call EXCEPT !.pc = "checkAuthSession",
                                   !.failed = @ \cup {"getUsers"}]
         ELSE IF ~usersParse(usersData)
         THEN call' = [call EXCEPT !.pc = "checkAuthSession",
                                   !.failed = @ \cup {"parseUsers"}]
         ELSE LET users == parseUsers(usersData) IN
              IF findByEmailExact(users, DemoEmail) # 0
              THEN call' = [call EXCEPT !.pc = "checkAuthSession"]
              ELSE call' = Spread([call EXCEPT !.pc = "demoSetUsers"],
                                  [users |-> Append(users, newDemoUser(t)),
                                   newDemoUser |-> newDemoUser(t)])
    /\ UNCHANGED <<storage, authState, done, registered, seedWrites, restarts, calls>>
    /\ UNCHANGED screens
    /\ UNCHANGED pending

\* await AsyncStorage.setItem(USERS_STORAGE_KEY, JSON.stringify(users))
DemoSetUsers ==
    /\ call.op = "initializeApp" /\ call.pc = "demoSetUsers"
    /\ \E ok \in BOOLEAN :
         IF ok
         THEN /\ storage' = setItem(storage, USERS_STORAGE_KEY, JSONstringify(call.users))
              /\ seedWrites' = [seedWrites EXCEPT !.users = @ + 1]
              /\ call' = [call EXCEPT !.pc = "demoSetPassword"]
         ELSE /\ call' = [call EXCEPT !.pc = "checkAuthSession",
                                      !.failed = @ \cup {"setUsers"}]
              /\ UNCHANGED <<storage, seedWrites>>
    /\ UNCHANGED <<authState, done, registered, restarts, calls>>
    /\ UNCHANGED screens
    /\ UNCHANGED pending

\* await AsyncStorage.setItem(`password_${newDemoUser.id}`, 'demo123')
DemoSetPassword ==
    /\ call.op = "initializeApp" /\ call.pc = "demoSetPassword"
    /\ \E ok \in BOOLEAN :
         IF ok
         THEN /\ storage' = setItem(storage, passwordKey(call.newDemoUser.id),
                                    RawString(DemoPassword))
              /\ seedWrites' = [seedWrites EXCEPT !.password = @ + 1]
              /\ call' = [call EXCEPT !.pc = "checkAuthSession"]
         ELSE /\ call' = [call EXCEPT !.pc = "checkAuthSession",
                                      !.failed = @ \cup {"setPassword"}]
              /\ UNCHANGED <<storage, seedWrites>>
    /\ UNCHANGED <<authState, done, registered, restarts, calls>>
    /\ UNCHANGED screens
    /\ UNCHANGED pending

\* checkAuthSession that sets loading false only after a successful restore.
checkAuthSession_noFinally(state, ok, userData) ==
    IF ok /\ userData # Null /\ JSONparses(userData)
    THEN SetLoading(LoginSuccess(state, JSONparse(userData)), FALSE)
    ELSE state

\* The state checkAuthSession leaves: LOGIN_SUCCESS when the record is read and
\* parses, then (finally) SET_LOADING false.
checkAuthSession(state, ok, userData) ==
    IF ok /\ userData # Null /\ JSONparses(userData)
    THEN SetLoading(LoginSuccess(state, JSONparse(userData)), FALSE)
    ELSE SetLoading(state, FALSE)

CheckAuthSession ==
    /\ call.op = "initializeApp" /\ call.pc = "checkAuthSession"
    /\ \E ok \in BOOLEAN :
         LET userData == getItem(storage, AUTH_STORAGE_KEY) IN
         /\ authState' = checkAuthSession(authState, ok, userData)
         /\ done' = [op |-> "initializeApp",
                     error |-> "none", thrown |-> FALSE,
                     failed |-> call.failed \cup
                                (IF ok THEN {} ELSE {"getSession"}) \cup
                                (IF ok /\ userData # Null /\ ~JSONparses(userData)
                                 THEN {"parseSession"} ELSE {}),
                     pre |-> call.pre]
    /\ call' = Idle
    /\ UNCHANGED <<storage, registered, seedWrites, restarts, calls>>
    /\ UNCHANGED screens
    /\ UNCHANGED pending

(***************************************************************************)
(* Inputs                                                                   *)
(***************************************************************************)
LoginInputs ==
    [email : {"A@x.com", "b@x.com", "demo@movieflix.com"},
     password : {"secret1", "demo123"}]

RegisterInputs ==
    {[name |-> "Ann", email |-> e, password |-> p[1], confirmPassword |-> p[2]] :
        e \in {"a@x.com", "A@x.com"},
        p \in {<<"secret1", "secret1">>, <<"secret1", "secret2">>, <<"short", "short">>}}

\* The registration of a second person.
SecondRegisterInputs ==
    {[name |-> "Bob", email |-> "b@x.com", password |-> "secret1", confirmPassword |-> "secret1"]}

\* What the profile screen's toggleNotifications passes: the whole user, with
\* preferences.notifications replaced.
toggleNotificationsPayload(user, value) ==
    [user EXCEPT !.preferences = [@ EXCEPT !.notifications = value]]

\* Partial<User> values handed to updateUser.
UserDataInputs(user) ==
    {[id |-> "1"], [email |-> "A@x.com"]}
    \cup (IF user = Null THEN {}
          ELSE {toggleNotificationsPayload(user, v) : v \in BOOLEAN})

\* The record a handler delivers when it completes.
Completed(c, error, thrown, failed) ==
    Spread(c, [pc |-> "done", error |-> error, thrown |-> thrown, failed |-> failed])

StorageError == "AsyncStorage rejected"
SyntaxError == "JSON Parse error"

(***************************************************************************)
(* login                                                                    *)
(***************************************************************************)
\* catch of login and of register: SET_LOADING false, Alert, rethrow.
Rethrow(error, failed) ==
    /\ authState' = SetLoading(authState, FALSE)
    /\ done' = Completed(call, error, TRUE, failed)
    /\ call' = Idle

\* History: the logout that succeeded in the step just before this call, if any.
PreviousLogout ==
    IF done.op = "logout" /\ done.error = "none"
    THEN [op |-> "logout", pre |-> done.pre]
    ELSE NoResult

Login ==
    /\ call = Idle
    /\ calls < MaxCalls
    /\ calls' = calls + 1
    /\ \E credentials \in LoginInputs :
         call' = [op |-> "login", pc |-> "getUsers", args |-> credentials,
                  pre |-> Snapshot, follows |-> registered, prev |-> PreviousLogout]
    /\ authState' = SetLoading(authState, TRUE)
    /\ done' = NoResult
    /\ registered' = Null
    /\ UNCHANGED <<storage, seedWrites, restarts>>
    /\ UNCHANGED screens
    /\ UNCHANGED pending

\* loginFindUser comparing the e-mail as typed, without toLowerCase.
loginFindUser_exact(users, credentials) ==
    IF findByEmailExact(users, credentials.email) = 0
    THEN "User not found. Please register first."
    ELSE "none"

\* The error login throws after reading the registry, "none" if it goes on.
loginFindUser(users, credentials) ==
    IF findByEmailLower(users, credentials.email) = 0
    THEN "User not found. Please register first."
    ELSE "none"

LoginGetUsers ==
    /\ call.op = "login" /\ call.pc = "getUsers"
    /\ \E ok \in BOOLEAN :
         LET usersData == getItem(storage, USERS_STORAGE_KEY) IN
         IF ~ok THEN Rethrow(StorageError, {"getUsers"})
         ELSE IF ~usersParse(usersData) THEN Rethrow(SyntaxError, {"parseUsers"})
         ELSE LET users == parseUsers(usersData)
                  error == loginFindUser(users, call.args) IN
              IF error # "none" THEN Rethrow(error, {})
              ELSE /\ call' = Spread([call EXCEPT !.pc = "getPassword"],
                                     [user |-> users[findByEmailLower(users, call.args.email)]])
                   /\ UNCHANGED <<authState, done>>
    /\ UNCHANGED <<storage, registered, seedWrites, restarts, calls>>
    /\ UNCHANGED screens
    /\ UNCHANGED pending

\* loginCheckPassword that accepts a user with no stored credential.
loginCheckPassword_absentOk(storedPassword, credentials) ==
    IF storedPassword # Null /\ storedPassword # RawString(credentials.password)
    THEN "Invalid password"
    ELSE "none"

\* storedPassword !== credentials.password
loginCheckPassword(storedPassword, credentials) ==
    IF storedPassword # RawString(credentials.password)
    THEN "Invalid password"
    ELSE "none"

LoginGetPassword ==
    /\ call.op = "login" /\ call.pc = "getPassword"
    /\ \E ok \in BOOLEAN :
         LET storedPassword == getItem(storage, passwordKey(call.user.id))
             error == loginCheckPassword(storedPassword, call.args) IN
         IF ~ok THEN Rethrow(StorageError, {"getPassword"})
         ELSE IF error # "none" THEN Rethrow(error, {})
         ELSE /\ call' = [call EXCEPT !.pc = "setSession"]
              /\ UNCHANGED <<authState, done>>
    /\ UNCHANGED <<storage, registered, seedWrites, restarts, calls>>
    /\ UNCHANGED screens
    /\ UNCHANGED pending

LoginSetSession ==
    /\ call.op = "login" /\ call.pc = "setSession"
    /\ \E ok \in BOOLEAN :
         IF ~ok THEN Rethrow(StorageError, {"setSession"}) /\ UNCHANGED storage
         ELSE /\ storage' = setItem(storage, AUTH_STORAGE_KEY, JSONstringify(call.user))
              /\ authState' = LoginSuccess(authState, call.user)
              /\ done' = Completed(call, "none", FALSE, {})
              /\ call' = Idle
    /\ UNCHANGED <<registered, seedWrites, restarts, calls>>
    /\ UNCHANGED screens
    /\ UNCHANGED pending

(***************************************************************************)
(* register                                                                 *)
(***************************************************************************)
\* registerValidate without the length check.
registerValidate_noLength(credentials) ==
    IF credentials.password # credentials.confirmPassword
    THEN "Passwords do not match"
    ELSE "none"

\* The validation before the first await: the error thrown, "none" if valid.
registerValidate(credentials) ==
    IF credentials.password # credentials.confirmPassword
    THEN "Passwords do not match"
    ELSE IF Len(credentials.password) < 6
    THEN "Password must be at least 6 characters"
    ELSE "none"

\* The bound on the registry: a register that would add an entry is not started
\* on a registry of MaxUsers entries.
RegisterWithinBounds(credentials) ==
    \/ Len(Registry) < MaxUsers
    \/ registerValidate(credentials) # "none"
    \/ findByEmailLower(Registry, credentials.email) # 0

RegisterWith(inputs) ==
    /\ call = Idle
    /\ calls < MaxCalls
    /\ calls' = calls + 1
    /\ \E credentials \in inputs :
         LET c == [op |-> "register", pc |-> "getUsers", args |-> credentials,
                   pre |-> Snapshot, prev |-> PreviousLogout]
             error == registerValidate(credentials) IN
         /\ RegisterWithinBounds(credentials)
         /\ IF error # "none"
            THEN /\ authState' = SetLoading(SetLoading(authState, TRUE), FALSE)
                 /\ done' = Completed(c, error, TRUE, {})
                 /\ call' = Idle
            ELSE /\ authState' = SetLoading(authState, TRUE)
                 /\ done' = NoResult
                 /\ call' = c
    /\ registered' = Null
    /\ UNCHANGED <<storage, seedWrites, restarts>>
    /\ UNCHANGED screens
    /\ UNCHANGED pending

Register == RegisterWith(RegisterInputs)

RegisterSecond == RegisterWith(SecondRegisterInputs)

\* registerFindExisting comparing the e-mail as typed, without toLowerCase.
registerFindExisting_exact(users, credentials) ==
    IF findByEmailExact(users, credentials.email) # 0
    THEN "Email already registered"
    ELSE "none"

\* The error register throws after reading the registry, "none" if it goes on.
registerFindExisting(users, credentials) ==
    IF findByEmailLower(users, credentials.email) # 0
    THEN "Email already registered"
    ELSE "none"

newUser(credentials, t) ==
    [id |-> DateToString(t),
     email |-> toLowerCase(credentials.email),
     name |-> credentials.name,
     createdAt |-> toISOString(t),
     preferences |-> defaultPreferences]

RegisterGetUsers ==
    /\ call.op = "register" /\ call.pc = "getUsers"
    /\ \E ok \in BOOLEAN, t \in Clock :
         LET usersData == getItem(storage, USERS_STORAGE_KEY) IN
         IF ~ok THEN Rethrow(StorageError, {"getUsers"})
         ELSE IF ~usersParse(usersData) THEN Rethrow(SyntaxError, {"parseUsers"})
         ELSE LET users == parseUsers(usersData)
                  error == registerFindExisting(users, call.args) IN
              IF error # "none" THEN Rethrow(error, {})
              ELSE /\ call' = Spread([call EXCEPT !.pc = "setUsers"],
                                     [users |-> Append(users, newUser(call.args, t)),
                                      newUser |-> newUser(call.args, t)])
                   /\ UNCHANGED <<authState, done>>
    /\ UNCHANGED <<storage, registered, seedWrites, restarts, calls>>
    /\ UNCHANGED screens
    /\ UNCHANGED pending

RegisterSetUsers ==
    /\ call.op = "register" /\ call.pc = "setUsers"
    /\ \E ok \in BOOLEAN :
         IF ~ok THEN Rethrow(StorageError, {"setUsers"}) /\ UNCHANGED storage
         ELSE /\ storage' = setItem(storage, USERS_STORAGE_KEY, JSONstringify(call.users))
              /\ call' = [call EXCEPT !.pc = "setPassword"]
              /\ UNCHANGED <<authState, done>>
    /\ UNCHANGED <<registered, seedWrites, restarts, calls>>
    /\ UNCHANGED screens
    /\ UNCHANGED pending

RegisterSetPassword ==
    /\ call.op = "register" /\ call.pc = "setPassword"
    /\ \E ok \in BOOLEAN :
         IF ~ok THEN Rethrow(StorageError, {"setPassword"}) /\ UNCHANGED storage
         ELSE /\ storage' = setItem(storage, passwordKey(call.newUser.id),
                                    RawString(call.args.password))
              /\ call' = [call EXCEPT !.pc = "setSession"]
              /\ UNCHANGED <<authState, done>>
    /\ UNCHANGED <<registered, seedWrites, restarts, calls>>
    /\ UNCHANGED screens
    /\ UNCHANGED pending

\* RegisterSetSession dispatching LOGIN_SUCCESS before the session write is awaited.
RegisterSetSession_dispatchFirst ==
    /\ call.op = "register" /\ call.pc = "setSession"
    /\ \E ok \in BOOLEAN :
         IF ~ok
         THEN /\ authState' = SetLoading(LoginSuccess(authState, call.newUser), FALSE)
              /\ done' = Completed(call, StorageError, TRUE, {"setSession"})
              /\ call' = Idle
              /\ UNCHANGED <<storage, registered>>
         ELSE /\ storage' = setItem(storage, AUTH_STORAGE_KEY, JSONstringify(call.newUser))
              /\ authState' = LoginSuccess(authState, call.newUser)
              /\ done' = Completed(call, "none", FALSE, {})
              /\ call' = Idle
              /\ registered' = [email |-> call.args.email,
                                password |-> call.args.password,
                                id |-> call.newUser.id]
    /\ UNCHANGED <<seedWrites, restarts, calls>>
    /\ UNCHANGED screens
    /\ UNCHANGED pending

RegisterSetSession ==
    /\ call.op = "register" /\ call.pc = "setSession"
    /\ \E ok \in BOOLEAN :
         IF ~ok
         THEN Rethrow(StorageError, {"setSession"}) /\ UNCHANGED <<storage, registered>>
         ELSE /\ storage' = setItem(storage, AUTH_STORAGE_KEY, JSONstringify(call.newUser))
              /\ authState' = LoginSuccess(authState, call.newUser)
              /\ done' = Completed(call, "none", FALSE, {})
              /\ call' = Idle
              /\ registered' = [email |-> call.args.email,
                                password |-> call.args.password,
                                id |-> call.newUser.id]
    /\ UNCHANGED <<seedWrites, restarts, calls>>
    /\ UNCHANGED screens
    /\ UNCHANGED pending

(***************************************************************************)
(* logout                                                                   *)
(***************************************************************************)
Logout ==
    /\ call = Idle
    /\ calls < MaxCalls
    /\ calls' = calls + 1
    /\ call' = [op |-> "logout", pc |-> "removeSession", pre |-> Snapshot]
    /\ done' = NoResult
    /\ UNCHANGED <<storage, authState, registered, seedWrites, restarts>>
    /\ UNCHANGED screens
    /\ UNCHANGED pending

\* await AsyncStorage.removeItem(AUTH_STORAGE_KEY); dispatch LOGOUT.  The catch
\* alerts and does not rethrow.
LogoutRemoveSession ==
    /\ call.op = "logout" /\ call.pc = "removeSession"
    /\ \E ok \in BOOLEAN :
         IF ~ok
         THEN /\ done' = Completed(call, StorageError, FALSE, {"removeSession"})
              /\ registered' = Null
              /\ UNCHANGED <<storage, authState>>
         ELSE /\ storage' = removeItem(storage, AUTH_STORAGE_KEY)
              /\ authState' = authReducer(authState, [type |-> "LOGOUT"])
              /\ done' = Completed(call, "none", FALSE, {})
              /\ UNCHANGED registered
    /\ call' = Idle
    /\ UNCHANGED <<seedWrites, restarts, calls>>
    /\ UNCHANGED screens
    /\ UNCHANGED pending

(***************************************************************************)
(* updateUser                                                               *)
(***************************************************************************)
\* catch of updateUser: Alert, no rethrow, no dispatch.
UpdateCaught(error, failed) ==
    /\ done' = Completed(call, error, FALSE, failed)
    /\ call' = Idle
    /\ UNCHANGED authState

\* if (!authState.user) return;
updateUserReturnsEarly_never(state) == FALSE

updateUserReturnsEarly(state) == state.user = Null

UpdateUser ==
    /\ call = Idle
    /\ calls < MaxCalls
    /\ calls' = calls + 1
    /\ \E userData \in UserDataInputs(authState.user) :
         LET c == [op |-> "updateUser", pc |-> "setSession", args |-> userData,
                   pre |-> Snapshot] IN
         IF updateUserReturnsEarly(authState)
         THEN /\ done' = Completed(c, "none", FALSE, {})
              /\ call' = Idle
         ELSE /\ done' = NoResult
              /\ call' = Spread(c, [user |-> authState.user,
                                    updatedUser |-> Spread(authState.user, userData)])
    /\ registered' = Null
    /\ UNCHANGED <<storage, authState, seedWrites, restarts>>
    /\ UNCHANGED screens
    /\ UNCHANGED pending

UpdateSetSession ==
    /\ call.op = "updateUser" /\ call.pc = "setSession"
    /\ \E ok \in BOOLEAN :
         IF ~ok THEN UpdateCaught(StorageError, {"setSession"}) /\ UNCHANGED storage
         ELSE /\ storage' = setItem(storage, AUTH_STORAGE_KEY, JSONstringify(call.updatedUser))
              /\ call' = [call EXCEPT !.pc = "getUsers"]
              /\ UNCHANGED <<authState, done>>
    /\ UNCHANGED <<registered, seedWrites, restarts, calls>>
    /\ UNCHANGED screens
    /\ UNCHANGED pending

\* users[userIndex] = updatedUser
replaceUser(users, userIndex, updatedUser) == [users EXCEPT ![userIndex] = updatedUser]

UpdateGetUsers ==
    /\ call.op = "updateUser" /\ call.pc = "getUsers"
    /\ \E ok \in BOOLEAN :
         LET usersData == getItem(storage, USERS_STORAGE_KEY) IN
         IF ~ok THEN UpdateCaught(StorageError, {"getUsers"})
         ELSE IF ~usersParse(usersData) THEN UpdateCaught(SyntaxError, {"parseUsers"})
         ELSE LET users == parseUsers(usersData)
                  userIndex == findIndexById(users, call.user.id) IN
              IF userIndex = 0
              THEN /\ authState' = authReducer(authState,
                                      [type |-> "UPDATE_USER", payload |-> call.args])
                   /\ done' = Completed(call, "none", FALSE, {})
                   /\ call' = Idle
              ELSE /\ call' = Spread([call EXCEPT !.pc = "setUsers"],
                                     [users |-> replaceUser(users, userIndex, call.updatedUser)])
                   /\ UNCHANGED <<authState, done>>
    /\ UNCHANGED <<storage, registered, seedWrites, restarts, calls>>
    /\ UNCHANGED screens
    /\ UNCHANGED pending

UpdateSetUsers ==
    /\ call.op = "updateUser" /\ call.pc = "setUsers"
    /\ \E ok \in BOOLEAN :
         IF ~ok THEN UpdateCaught(StorageError, {"setUsers"}) /\ UNCHANGED storage
         ELSE /\ storage' = setItem(storage, USERS_STORAGE_KEY, JSONstringify(call.users))
              /\ authState' = authReducer(authState,
                                 [type |-> "UPDATE_USER", payload |-> call.args])
              /\ done' = Completed(call, "none", FALSE, {})
              /\ call' = Idle
    /\ UNCHANGED <<registered, seedWrites, restarts, calls>>
    /\ UNCHANGED screens
    /\ UNCHANGED pending

(***************************************************************************)
(* clearAllData (profile screen)                                            *)
(***************************************************************************)
ClearAllData ==
    /\ call = Idle
    /\ calls < MaxCalls
    /\ calls' = calls + 1
    /\ call' = [op |-> "clearAllData", pc |-> "clear", pre |-> Snapshot]
    /\ done' = NoResult
    /\ registered' = Null
    /\ UNCHANGED <<storage, authState, seedWrites, restarts>>
    /\ UNCHANGED screens
    /\ UNCHANGED pending

\* await AsyncStorage.clear(); setWatchlistStats({ totalMovies: 0, ... })
ClearAllDataClear ==
    /\ call.op = "clearAllData" /\ call.pc = "clear"
    /\ \E ok \in BOOLEAN :
         IF ~ok
         THEN /\ done' = Completed(call, StorageError, FALSE, {"clear"})
              /\ UNCHANGED <<storage, seedWrites, profileScreen>>
         ELSE /\ storage' = EmptyStorage
              /\ seedWrites' = [users |-> 0, password |-> 0]
              /\ profileScreen' = [profileScreen EXCEPT !.watchlistStats = emptyStats]
              /\ done' = Completed(call, "none", FALSE, {})
    /\ call' = Idle
    /\ UNCHANGED <<authState, registered, restarts, calls, isInWatchlist, watchlistScreen>>
    /\ UNCHANGED pending

\* The process is killed and started again: memory is lost, the store is kept.
Restart ==
    /\ restarts < MaxRestarts
    /\ restarts' = restarts + 1
    /\ authState' = initialState
    /\ call' = InitializeCall(storage, initialState)
    /\ done' = NoResult
    /\ registered' = Null
    /\ isInWatchlist' = initialIsInWatchlist
    /\ watchlistScreen' = initialWatchlistScreen
    /\ profileScreen' = initialProfileScreen
    /\ pending' = Idle
    /\ UNCHANGED <<storage, seedWrites, calls>>

Next ==
    \/ DemoGetUsers
    \/ DemoSetUsers
    \/ DemoSetPassword
    \/ CheckAuthSession
    \/ Login
    \/ LoginGetUsers
    \/ LoginGetPassword
    \/ LoginSetSession
    \/ Register
    \/ RegisterGetUsers
    \/ RegisterSetUsers
    \/ RegisterSetPassword
    \/ RegisterSetSession
    \/ Logout
    \/ LogoutRemoveSession
    \/ UpdateUser
    \/ UpdateSetSession
    \/ UpdateGetUsers
    \/ UpdateSetUsers
    \/ ClearAllData
    \/ ClearAllDataClear
    \/ Restart

Spec == Init /\ [][Next]_vars

(***************************************************************************)
(* Watchlist: MovieCard, MovieDetailScreen, TVShowDetailScreen              *)
(***************************************************************************)
\* const isTV = movie.media_type === 'tv'
isTV(c) == "media_type" \in DOMAIN c.item /\ c.item.media_type = "tv"

\* The key a component reads and writes.
watchlistKey(c) ==
    CASE c.screen = "MovieCard" -> IF isTV(c) THEN "tvWatchlist" ELSE "watchlist"
      [] c.screen = "MovieDetailScreen" -> "watchlist"
      [] c.screen = "TVShowDetailScreen" -> "tvWatchlist"

\* What a component pushes: the card marks the item with its media type, the
\* TV detail screen marks it 'tv', the movie detail screen pushes the movie as
\* it is.
itemToAdd(c) ==
    CASE c.screen = "MovieCard" ->
             Spread(c.item, [media_type |-> IF isTV(c) THEN "tv" ELSE "movie"])
      [] c.screen = "MovieDetailScreen" -> c.item
      [] c.screen = "TVShowDetailScreen" -> Spread(c.item, [media_type |-> "tv"])

\* watchlist ? JSON.parse(watchlist) : []
arrayParses(data) == data = Null \/ JSONparses(data)
parseArray(data) == IF data = Null THEN <<>> ELSE JSONparse(data)

\* watchlistArray.some(item => item.id === id)
some(array, id) == \E i \in DOMAIN array : array[i].id = id

\* filterOutId dropping only the first entry of the id.
filterOutId_first(array, id) ==
    LET S == {i \in DOMAIN array : array[i].id = id} IN
    IF S = {} THEN array
    ELSE LET k == CHOOSE i \in S : \A j \in S : i <= j IN
         SubSeq(array, 1, k - 1) \o SubSeq(array, k + 1, Len(array))

\* watchlistArray.filter(item => item.id !== id)
filterOutId(array, id) == SelectSeq(array, LAMBDA item : item.id # id)

\* The branch of toggleWatchlist on the component's flag.
toggleArray(flag, array, c) ==
    IF flag THEN filterOutId(array, c.item.id) ELSE Append(array, itemToAdd(c))

\* What a watchlist handler saw when it was called.
WatchlistSnapshot ==
    [storage |-> storage, isInWatchlist |-> isInWatchlist, watchlistScreen |-> watchlistScreen]

\* catch of a watchlist handler: console.error and a toast or an alert.
WatchlistCaught(error, failed) ==
    /\ done' = Completed(call, error, FALSE, failed)
    /\ call' = Idle

\* History: the toggle that succeeded in the step just before this call, if any.
PreviousToggle ==
    IF done.op = "toggleWatchlist" /\ done.error = "none"
    THEN [op |-> "toggleWatchlist", component |-> done.component, pre |-> done.pre]
    ELSE NoResult

ToggleWatchlist ==
    /\ call = Idle
    /\ calls < MaxOps
    /\ calls' = calls + 1
    /\ \E c \in Components :
         call' = [op |-> "toggleWatchlist", pc |-> "getItem", component |-> c,
                  isInWatchlist |-> isInWatchlist[c], pre |-> WatchlistSnapshot,
                  prev |-> PreviousToggle]
    /\ done' = NoResult
    /\ UNCHANGED <<storage, authState, registered, seedWrites, restarts, screens>>
    /\ UNCHANGED pending

ToggleGetItem ==
    /\ call.op = "toggleWatchlist" /\ call.pc = "getItem"
    /\ \E ok \in BOOLEAN :
         LET watchlist == getItem(storage, watchlistKey(call.component)) IN
         IF ~ok THEN WatchlistCaught(StorageError, {"getItem"})
         ELSE IF ~arrayParses(watchlist) THEN WatchlistCaught(SyntaxError, {"parse"})
         ELSE /\ call' = Spread([call EXCEPT !.pc = "setItem"],
                                [watchlistArray |-> toggleArray(call.isInWatchlist,
                                                       parseArray(watchlist), call.component)])
              /\ UNCHANGED done
    /\ UNCHANGED <<storage, authState, registered, seedWrites, restarts, calls, screens>>
    /\ UNCHANGED pending

ToggleSetItem_flipsFirst ==
    /\ call.op = "toggleWatchlist" /\ call.pc = "setItem"
    /\ isInWatchlist' = [isInWatchlist EXCEPT ![call.component] = ~call.isInWatchlist]
    /\ \E ok \in BOOLEAN :
         IF ~ok
         THEN /\ WatchlistCaught(StorageError, {"setItem"})
              /\ UNCHANGED storage
         ELSE /\ storage' = setItem(storage, watchlistKey(call.component),
                                    JSONstringify(call.watchlistArray))
              /\ done' = Completed(call, "none", FALSE, {})
              /\ call' = Idle
    /\ UNCHANGED <<authState, registered, seedWrites, restarts, calls,
                   watchlistScreen, profileScreen, pending>>

ToggleSetItem ==
    /\ call.op = "toggleWatchlist" /\ call.pc = "setItem"
    /\ \E ok \in BOOLEAN :
         IF ~ok
         THEN /\ WatchlistCaught(StorageError, {"setItem"})
              /\ UNCHANGED <<storage, isInWatchlist>>
         ELSE /\ storage' = setItem(storage, watchlistKey(call.component),
                                    JSONstringify(call.watchlistArray))
              /\ isInWatchlist' = [isInWatchlist EXCEPT ![call.component] = ~call.isInWatchlist]
              /\ done' = Completed(call, "none", FALSE, {})
              /\ call' = Idle
    /\ UNCHANGED <<authState, registered, seedWrites, restarts, calls,
                   watchlistScreen, profileScreen>>
    /\ UNCHANGED pending

\* A card or a detail screen is mounted again: useState(false), then the
\* effect runs checkWatchlistStatus.
CheckWatchlistStatus ==
    /\ call = Idle
    /\ calls < MaxOps
    /\ calls' = calls + 1
    /\ \E c \in Components :
         /\ isInWatchlist' = [isInWatchlist EXCEPT ![c] = FALSE]
         /\ call' = [op |-> "checkWatchlistStatus", pc |-> "getItem", component |-> c,
                     pre |-> WatchlistSnapshot]
    /\ done' = NoResult
    /\ UNCHANGED <<storage, authState, registered, seedWrites, restarts,
                   watchlistScreen, profileScreen>>
    /\ UNCHANGED pending

CheckGetItem ==
    /\ call.op = "checkWatchlistStatus" /\ call.pc = "getItem"
    /\ \E ok \in BOOLEAN :
         LET c == call.component
             watchlist == getItem(storage, watchlistKey(c)) IN
         IF ~ok THEN WatchlistCaught(StorageError, {"getItem"}) /\ UNCHANGED isInWatchlist
         ELSE IF watchlist = Null
         THEN /\ done' = Completed(call, "none", FALSE, {})
              /\ call' = Idle
              /\ UNCHANGED isInWatchlist
         ELSE IF ~JSONparses(watchlist)
         THEN WatchlistCaught(SyntaxError, {"parse"}) /\ UNCHANGED isInWatchlist
         ELSE /\ isInWatchlist' =
                    [isInWatchlist EXCEPT ![c] = some(JSONparse(watchlist), c.item.id)]
              /\ done' = Completed(call, "none", FALSE, {})
              /\ call' = Idle
    /\ UNCHANGED <<storage, authState, registered, seedWrites, restarts, calls,
                   watchlistScreen, profileScreen>>
    /\ UNCHANGED pending

\* The screen that shows a card or a detail screen gets the focus again.  The
\* component registers no focus effect (checkWatchlistStatus runs from
\* useEffect, on mount), so the event runs no handler and reads nothing.
FocusComponent ==
    /\ call = Idle
    /\ \E c \in Components :
         done' = [op |-> "focus", component |-> c, error |-> "none", failed |-> {}]
    /\ UNCHANGED <<storage, authState, call, registered, seedWrites, restarts, calls,
                   screens, pending>>

(***************************************************************************)
(* Watchlist: WatchlistScreen                                               *)
(***************************************************************************)
WatchlistTypes == {"all", "movies", "tv"}

\* JSON.parse(data).map(item => ({ ...item, media_type: mediaType }))
annotate(array, mediaType) ==
    [i \in DOMAIN array |-> Spread(array[i], [media_type |-> mediaType])]

\* [...movieItems, ...tvItems]
combine_moviesOnly(movieItems, tvItems) == movieItems

combine(movieItems, tvItems) == movieItems \o tvItems

filteredWatchlist(ws) ==
    SelectSeq(ws.watchlist,
              LAMBDA item : CASE ws.activeWatchlistType = "all" -> TRUE
                              [] ws.activeWatchlistType = "movies" -> item.media_type = "movie"
                              [] ws.activeWatchlistType = "tv" -> item.media_type = "tv")

\* useFocusEffect and the pull to refresh: loadWatchlist
LoadWatchlist ==
    /\ call = Idle
    /\ calls < MaxOps
    /\ calls' = calls + 1
    /\ watchlistScreen' = [watchlistScreen EXCEPT !.loading = TRUE]
    /\ call' = [op |-> "loadWatchlist", pc |-> "getItems", pre |-> WatchlistSnapshot]
    /\ done' = NoResult
    /\ UNCHANGED <<storage, authState, registered, seedWrites, restarts,
                   isInWatchlist, profileScreen>>
    /\ UNCHANGED pending

LoadGetItems ==
    /\ call.op = "loadWatchlist" /\ call.pc = "getItems"
    /\ \E ok \in BOOLEAN :
         LET movieWatchlistData == getItem(storage, "watchlist")
             tvWatchlistData == getItem(storage, "tvWatchlist") IN
         IF ~ok
         THEN /\ WatchlistCaught(StorageError, {"getItem"})
              /\ watchlistScreen' = [watchlistScreen EXCEPT !.loading = FALSE]
         ELSE IF ~arrayParses(movieWatchlistData) \/ ~arrayParses(tvWatchlistData)
         THEN /\ WatchlistCaught(SyntaxError, {"parse"})
              /\ watchlistScreen' = [watchlistScreen EXCEPT !.loading = FALSE]
         ELSE /\ watchlistScreen' =
                    [watchlistScreen EXCEPT
                        !.watchlist = combine(annotate(parseArray(movieWatchlistData), "movie"),
                                              annotate(parseArray(tvWatchlistData), "tv")),
                        !.loading = FALSE]
              /\ done' = Completed(call, "none", FALSE, {})
              /\ call' = Idle
    /\ UNCHANGED <<storage, authState, registered, seedWrites, restarts, calls,
                   isInWatchlist, profileScreen>>
    /\ UNCHANGED pending

\* The segmented control of the header.
SetActiveWatchlistType ==
    /\ call = Idle
    /\ ~watchlistScreen.loading
    /\ \E t \in WatchlistTypes \ {watchlistScreen.activeWatchlistType} :
         watchlistScreen' = [watchlistScreen EXCEPT !.activeWatchlistType = t]
    /\ done' = NoResult
    /\ UNCHANGED <<storage, authState, call, registered, seedWrites, restarts, calls,
                   isInWatchlist, profileScreen>>
    /\ UNCHANGED pending

\* mediaType === 'movie' ? 'watchlist' : 'tvWatchlist'
removeKey_swapped(mediaType) == IF mediaType = "movie" THEN "tvWatchlist" ELSE "watchlist"

removeKey(mediaType) == IF mediaType = "movie" THEN "watchlist" ELSE "tvWatchlist"

\* prev.filter(item => !(item.id === id && item.media_type === mediaType))
withoutEntry(list, id, mediaType) ==
    SelectSeq(list, LAMBDA item : ~(item.id = id /\ item.media_type = mediaType))

\* The remove button of a listed item, confirmed in the alert.
RemoveFromWatchlist ==
    /\ call = Idle
    /\ calls < MaxOps
    /\ calls' = calls + 1
    /\ ~watchlistScreen.loading
    /\ \E i \in DOMAIN filteredWatchlist(watchlistScreen) :
         LET item == filteredWatchlist(watchlistScreen)[i] IN
         call' = [op |-> "removeFromWatchlist", pc |-> "getItem", id |-> item.id,
                  mediaType |-> item.media_type, pre |-> WatchlistSnapshot]
    /\ done' = NoResult
    /\ UNCHANGED <<storage, authState, registered, seedWrites, restarts, screens>>
    /\ UNCHANGED pending

RemoveGetItem ==
    /\ call.op = "removeFromWatchlist" /\ call.pc = "getItem"
    /\ \E ok \in BOOLEAN :
         LET currentWatchlistData == getItem(storage, removeKey(call.mediaType)) IN
         IF ~ok THEN WatchlistCaught(StorageError, {"getItem"})
         ELSE IF ~arrayParses(currentWatchlistData) THEN WatchlistCaught(SyntaxError, {"parse"})
         ELSE /\ call' = Spread([call EXCEPT !.pc = "setItem"],
                                [updatedWatchlist |->
                                    filterOutId(parseArray(currentWatchlistData), call.id)])
              /\ UNCHANGED done
    /\ UNCHANGED <<storage, authState, registered, seedWrites, restarts, calls, screens>>
    /\ UNCHANGED pending

RemoveSetItem ==
    /\ call.op = "removeFromWatchlist" /\ call.pc = "setItem"
    /\ \E ok \in BOOLEAN :
         IF ~ok
         THEN /\ WatchlistCaught(StorageError, {"setItem"})
              /\ UNCHANGED <<storage, watchlistScreen>>
         ELSE /\ storage' = setItem(storage, removeKey(call.mediaType),
                                    JSONstringify(call.updatedWatchlist))
              /\ watchlistScreen' =
                    [watchlistScreen EXCEPT
                        !.watchlist = withoutEntry(@, call.id, call.mediaType)]
              /\ done' = Completed(call, "none", FALSE, {})
              /\ call' = Idle
    /\ UNCHANGED <<authState, registered, seedWrites, restarts, calls,
                   isInWatchlist, profileScreen>>
    /\ UNCHANGED pending

\* activeWatchlistType === 'all' || activeWatchlistType === 'movies'
clearsMovies_always(scope) == TRUE

clearsMovies(scope) == scope \in {"all", "movies"}

\* activeWatchlistType === 'all' || activeWatchlistType === 'tv'
clearsTv(scope) == scope \in {"all", "tv"}

\* The setWatchlist at the end of clearWatchlist.
clearedList(list, scope) ==
    CASE scope = "all" -> <<>>
      [] scope = "movies" -> SelectSeq(list, LAMBDA item : item.media_type = "tv")
      [] scope = "tv" -> SelectSeq(list, LAMBDA item : item.media_type = "movie")

\* The Clear All button (shown while the filtered list is not empty),
\* confirmed in the alert.
ClearWatchlist ==
    /\ call = Idle
    /\ calls < MaxOps
    /\ calls' = calls + 1
    /\ ~watchlistScreen.loading
    /\ Len(filteredWatchlist(watchlistScreen)) > 0
    /\ call' = [op |-> "clearWatchlist",
                pc |-> IF clearsMovies(watchlistScreen.activeWatchlistType)
                       THEN "removeMovies" ELSE "removeTv",
                activeWatchlistType |-> watchlistScreen.activeWatchlistType,
                pre |-> WatchlistSnapshot]
    /\ done' = NoResult
    /\ UNCHANGED <<storage, authState, registered, seedWrites, restarts, screens>>
    /\ UNCHANGED pending

ClearRemoveMovies ==
    /\ call.op = "clearWatchlist" /\ call.pc = "removeMovies"
    /\ \E ok \in BOOLEAN :
         IF ~ok
         THEN /\ WatchlistCaught(StorageError, {"removeMovies"})
              /\ UNCHANGED <<storage, watchlistScreen>>
         ELSE /\ storage' = removeItem(storage, "watchlist")
              /\ IF clearsTv(call.activeWatchlistType)
                 THEN /\ call' = [call EXCEPT !.pc = "removeTv"]
                      /\ UNCHANGED <<done, watchlistScreen>>
                 ELSE /\ watchlistScreen' =
                            [watchlistScreen EXCEPT
                                !.watchlist = clearedList(@, call.activeWatchlistType)]
                      /\ done' = Completed(call, "none", FALSE, {})
                      /\ call' = Idle
    /\ UNCHANGED <<authState, registered, seedWrites, restarts, calls,
                   isInWatchlist, profileScreen>>
    /\ UNCHANGED pending

ClearRemoveTv ==
    /\ call.op = "clearWatchlist" /\ call.pc = "removeTv"
    /\ \E ok \in BOOLEAN :
         IF ~ok
         THEN /\ WatchlistCaught(StorageError, {"removeTv"})
              /\ UNCHANGED <<storage, watchlistScreen>>
         ELSE /\ storage' = removeItem(storage, "tvWatchlist")
              /\ watchlistScreen' =
                    [watchlistScreen EXCEPT
                        !.watchlist = clearedList(@, call.activeWatchlistType)]
              /\ done' = Completed(call, "none", FALSE, {})
              /\ call' = Idle
    /\ UNCHANGED <<authState, registered, seedWrites, restarts, calls,
                   isInWatchlist, profileScreen>>
    /\ UNCHANGED pending

(***************************************************************************)
(* Watchlist: the statistics of the profile screen                          *)
(***************************************************************************)
\* watchlist.filter(movie => movie && typeof movie === 'object' && movie.id && movie.title)
validMovies(watchlist) == SelectSeq(watchlist, LAMBDA movie : "title" \in DOMAIN movie)

AverageRuntime == 120

\* calculateStats: the items of the model carry no genre data.
calculateStats(watchlist) ==
    [totalMovies |-> Len(watchlist), genres |-> NoGenres,
     totalRuntime |-> AverageRuntime * Len(watchlist)]

\* The profile screen is mounted: loadProfileData.
LoadProfileData ==
    /\ call = Idle
    /\ calls < MaxOps
    /\ calls' = calls + 1
    /\ profileScreen' = [profileScreen EXCEPT !.loading = TRUE]
    /\ call' = [op |-> "loadProfileData", pc |-> "getItem", pre |-> WatchlistSnapshot]
    /\ done' = NoResult
    /\ UNCHANGED <<storage, authState, registered, seedWrites, restarts,
                   isInWatchlist, watchlistScreen>>
    /\ UNCHANGED pending

ProfileGetItem ==
    /\ call.op = "loadProfileData" /\ call.pc = "getItem"
    /\ \E ok \in BOOLEAN :
         LET watchlistData == getItem(storage, "watchlist") IN
         IF ~ok
         THEN /\ WatchlistCaught(StorageError, {"getItem"})
              /\ profileScreen' = [watchlistStats |-> emptyStats, loading |-> FALSE]
         ELSE IF watchlistData = Null
         THEN /\ profileScreen' = [watchlistStats |-> emptyStats, loading |-> FALSE]
              /\ done' = Completed(call, "none", FALSE, {})
              /\ call' = Idle
         ELSE IF ~JSONparses(watchlistData)
         THEN /\ call' = [call EXCEPT !.pc = "removeItem"]
              /\ UNCHANGED <<done, profileScreen>>
         ELSE /\ profileScreen' =
                    [watchlistStats |-> calculateStats(validMovies(JSONparse(watchlistData))),
                     loading |-> FALSE]
              /\ done' = Completed(call, "none", FALSE, {})
              /\ call' = Idle
    /\ UNCHANGED <<storage, authState, registered, seedWrites, restarts, calls,
                   isInWatchlist, watchlistScreen>>
    /\ UNCHANGED pending

\* catch (parseError): await AsyncStorage.removeItem('watchlist')
ProfileRemoveItem ==
    /\ call.op = "loadProfileData" /\ call.pc = "removeItem"
    /\ \E ok \in BOOLEAN :
         IF ~ok
         THEN /\ WatchlistCaught(StorageError, {"parse", "removeItem"})
              /\ UNCHANGED storage
         ELSE /\ storage' = removeItem(storage, "watchlist")
              /\ done' = Completed(call, "none", FALSE, {"parse"})
              /\ call' = Idle
    /\ profileScreen' = [watchlistStats |-> emptyStats, loading |-> FALSE]
    /\ UNCHANGED <<authState, registered, seedWrites, restarts, calls,
                   isInWatchlist, watchlistScreen>>
    /\ UNCHANGED pending

(***************************************************************************)
(* The watchlist handlers on a launched app.  The store holds what the     *)
(* first launch seeded; a watchlist key may hold text that is not JSON      *)
(* (left by something other than this code).                                *)
(***************************************************************************)
seededStorage ==
    setItem(setItem(EmptyStorage, USERS_STORAGE_KEY, JSONstringify(<<newDemoUser(1)>>)),
            passwordKey(newDemoUser(1).id), RawString(DemoPassword))

WatchlistInit ==
    /\ storage \in {seededStorage,
                    setItem(seededStorage, "watchlist", CorruptText),
                    setItem(seededStorage, "tvWatchlist", CorruptText)}
    /\ authState = SetLoading(initialState, FALSE)
    /\ call = Idle
    /\ done = NoResult
    /\ registered = Null
    /\ seedWrites = [users |-> 1, password |-> 1]
    /\ restarts = 0
    /\ calls = 0
    /\ isInWatchlist = initialIsInWatchlist
    /\ watchlistScreen = initialWatchlistScreen
    /\ profileScreen = initialProfileScreen
    /\ pending = Idle

WatchlistNext ==
    \/ ToggleWatchlist
    \/ ToggleGetItem
    \/ ToggleSetItem
    \/ CheckWatchlistStatus
    \/ CheckGetItem
    \/ FocusComponent
    \/ LoadWatchlist
    \/ LoadGetItems
    \/ SetActiveWatchlistType
    \/ RemoveFromWatchlist
    \/ RemoveGetItem
    \/ RemoveSetItem
    \/ ClearWatchlist
    \/ ClearRemoveMovies
    \/ ClearRemoveTv
    \/ LoadProfileData
    \/ ProfileGetItem
    \/ ProfileRemoveItem
    \/ ClearAllData
    \/ ClearAllDataClear

WatchlistSpec == WatchlistInit /\ [][WatchlistNext]_vars

(***************************************************************************)
(* Properties                                                               *)
(***************************************************************************)
\* The registry a completed handler saw when it was called.
PreRegistry == parseUsers(getItem(done.pre.storage, USERS_STORAGE_KEY))

\* Indices of the registry entries whose e-mail equals `email` ignoring case.
MatchesIgnoringCase(users, email) ==
    {i \in DOMAIN users : toLowerCase(users[i].email) = toLowerCase(email)}

SessionAsBefore ==
    /\ authState.user = done.pre.authState.user
    /\ authState.isAuthenticated = done.pre.authState.isAuthenticated

\* C1: in every reachable state the authenticated flag is true if and only if
\* the in-memory current user is present.
C1_AuthenticatedIffUser ==
    authState.isAuthenticated <=> (authState.user # Null)

\* C1 witness: a logout has just taken an authenticated session to no user.
C1_Witness ==
    /\ done.op = "logout"
    /\ done.pre.authState.isAuthenticated
    /\ ~authState.isAuthenticated
    /\ authState.user = Null

\* C2: with matching passwords of length >= 6 and no registry entry matching
\* the e-mail ignoring case, register succeeds when no storage call rejects;
\* and a login that follows that register (directly or after a logout), with
\* the same e-mail in any letter case and the same password, succeeds when no
\* storage call rejects and makes the user with the id register created the
\* current user.
C2_RegisterThenLogin ==
    /\ ( /\ done.op = "register"
         /\ done.failed = {}
         /\ done.args.password = done.args.confirmPassword
         /\ Len(done.args.password) >= 6
         /\ MatchesIgnoringCase(PreRegistry, done.args.email) = {} )
       => ( /\ done.error = "none"
            /\ authState.isAuthenticated
            /\ authState.user = done.newUser )
    /\ ( /\ done.op = "login"
         /\ done.failed = {}
         /\ done.follows # Null
         /\ toLowerCase(done.args.email) = toLowerCase(done.follows.email)
         /\ done.args.password = done.follows.password )
       => ( /\ done.error = "none"
            /\ authState.isAuthenticated
            /\ authState.user.id = done.follows.id )

\* C2 witness: register("a@x.com"), logout, then login("A@x.com") succeeded.
C2_Witness ==
    /\ done.op = "login"
    /\ done.follows # Null
    /\ done.follows.email = "a@x.com"
    /\ done.args.email = "A@x.com"
    /\ ~done.pre.authState.isAuthenticated
    /\ done.error = "none"
    /\ authState.user.id = done.follows.id

\* C3: a login whose reads succeed fails with 'User not found' when no registry
\* entry matches the e-mail ignoring case, and with 'Invalid password' when the
\* credential stored for the matched user is not exactly the password given;
\* in both cases the current user, the authenticated flag and the persisted
\* session record are as before the call.
C3_LoginFailures ==
    done.op = "login" =>
        LET matches == MatchesIgnoringCase(PreRegistry, done.args.email)
            first == CHOOSE i \in matches : \A j \in matches : i <= j
        IN
        /\ (done.failed = {} /\ matches = {})
              => (done.thrown /\ done.error = "User not found. Please register first.")
        /\ ( /\ done.failed = {}
             /\ matches # {}
             /\ getItem(done.pre.storage, passwordKey(PreRegistry[first].id))
                    # RawString(done.args.password) )
              => (done.thrown /\ done.error = "Invalid password")
        /\ done.error \in {"User not found. Please register first.", "Invalid password"}
              => /\ SessionAsBefore
                 /\ getItem(storage, AUTH_STORAGE_KEY)
                        = getItem(done.pre.storage, AUTH_STORAGE_KEY)

\* C3 witness: a wrong password was refused while a user was logged in.
C3_Witness ==
    /\ done.op = "login"
    /\ done.error = "Invalid password"
    /\ done.pre.authState.isAuthenticated
    /\ authState.isAuthenticated

\* C4: a register whose password differs from confirmPassword, or is shorter
\* than 6 characters, fails with the validation error and writes nothing: the
\* whole store (registry, credentials, session record) and the session in
\* memory are as before the call.
C4_RegisterValidation ==
    ( /\ done.op = "register"
      /\ \/ done.args.password # done.args.confirmPassword
         \/ Len(done.args.password) < 6 )
    => /\ done.thrown
       /\ done.error = (IF done.args.password # done.args.confirmPassword
                        THEN "Passwords do not match"
                        ELSE "Password must be at least 6 characters")
       /\ storage = done.pre.storage
       /\ SessionAsBefore

\* C4 witness: a five-character password was refused.
C4_Witness ==
    /\ done.op = "register"
    /\ done.args.password = "short"
    /\ done.error = "Password must be at least 6 characters"

\* C5: a register with valid passwords whose e-mail equals, ignoring case, the
\* e-mail of a registry entry fails with 'Email already registered' (when the
\* registry read succeeds) and leaves the store and the session unchanged.
C5_RegisterConflict ==
    ( /\ done.op = "register"
      /\ done.args.password = done.args.confirmPassword
      /\ Len(done.args.password) >= 6
      /\ done.failed = {}
      /\ MatchesIgnoringCase(PreRegistry, done.args.email) # {} )
    => /\ done.thrown
       /\ done.error = "Email already registered"
       /\ storage = done.pre.storage
       /\ SessionAsBefore

\* C5 witness: A@x.com was refused on a registry that holds a@x.com.
C5_Witness ==
    /\ done.op = "register"
    /\ done.args.email = "A@x.com"
    /\ \E i \in DOMAIN PreRegistry : PreRegistry[i].email = "a@x.com"
    /\ done.error = "Email already registered"

\* C6: a logout whose storage call does not reject leaves the session record
\* absent and the state Unauthenticated, and every other key of the store
\* (the registry, every credential) as it was.
C6_Logout ==
    (done.op = "logout" /\ done.failed = {})
    => /\ AUTH_STORAGE_KEY \notin DOMAIN storage
       /\ authState.user = Null
       /\ ~authState.isAuthenticated
       /\ DOMAIN storage = DOMAIN done.pre.storage \ {AUTH_STORAGE_KEY}
       /\ \A k \in DOMAIN storage : storage[k] = done.pre.storage[k]

\* C6 witness: logout of a logged-in user with a registry and a credential stored.
C6_Witness ==
    /\ done.op = "logout"
    /\ done.failed = {}
    /\ done.pre.authState.isAuthenticated
    /\ AUTH_STORAGE_KEY \in DOMAIN done.pre.storage
    /\ USERS_STORAGE_KEY \in DOMAIN storage
    /\ \E i \in DOMAIN Registry : passwordKey(Registry[i].id) \in DOMAIN storage

\* The persisted session record exists and deserializes.
SessionRecordRestorable ==
    /\ AUTH_STORAGE_KEY \in DOMAIN storage
    /\ JSONparses(storage[AUTH_STORAGE_KEY])

SeedEntries(users) == {i \in DOMAIN users : users[i].email = DemoEmail}

\* C8: seeding is idempotent.  An initialize that finds the seed e-mail in the
\* registry writes nothing; the registry never holds two entries with the seed
\* e-mail; the seed account and its credential are never written twice, and
\* once initialize has finished with the seed account in the registry, the
\* account and its credential have each been written exactly once.
C8_SeedWrittenOnce ==
    /\ Cardinality(SeedEntries(Registry)) <= 1
    /\ seedWrites.users <= 1
    /\ seedWrites.password <= 1
    /\ (done.op = "initializeApp" /\ SeedEntries(PreRegistry) # {})
          => storage = done.pre.storage
    /\ (done.op = "initializeApp" /\ SeedEntries(Registry) # {})
          => seedWrites = [users |-> 1, password |-> 1]

\* C9: when a storage write of register rejects, register fails and the store
\* is exactly as before the call.
C9_RegisterNoPartialWrite ==
    ( /\ done.op = "register"
      /\ done.failed \cap {"setUsers", "setPassword", "setSession"} # {} )
    => /\ done.thrown
       /\ storage = done.pre.storage

\* C10: every user in the registry has a credential stored under
\* password_<id> (stated for the states in which no handler is in flight).
C10_EveryUserHasCredential ==
    call = Idle =>
        \A i \in DOMAIN Registry : passwordKey(Registry[i].id) \in DOMAIN storage

\* The registry entries that carry the id of the in-memory user.
EntriesOfCurrentUser == {i \in DOMAIN Registry : Registry[i].id = authState.user.id}

\* C11: after every updateUser that succeeds with an active session, the
\* persisted session record, the registry entry with the current user's id and
\* the in-memory user are one and the same merged record, whatever calls came
\* before.
C11_UpdateKeepsRecordsEqual ==
    ( /\ done.op = "updateUser"
      /\ done.error = "none"
      /\ done.pre.authState.user # Null )
    => /\ authState.user = Spread(done.pre.authState.user, done.args)
       /\ getItem(storage, AUTH_STORAGE_KEY) = JSONstringify(authState.user)
       /\ EntriesOfCurrentUser # {}
       /\ \A i \in EntriesOfCurrentUser : Registry[i] = authState.user

\* C12: when a storage call of updateUser fails, the call does not throw and
\* the persisted session record, the registry and the in-memory user are all
\* as they were before the call.
C12_UpdateFailureKeepsState ==
    (done.op = "updateUser" /\ done.failed # {})
    => /\ ~done.thrown
       /\ getItem(storage, AUTH_STORAGE_KEY) = getItem(done.pre.storage, AUTH_STORAGE_KEY)
       /\ Registry = PreRegistry
       /\ authState = done.pre.authState

\* C13: updateUser called with no session is a no-op: it makes no storage
\* call (it never suspends), the store and the in-memory state are as before,
\* and it does not throw.
C13_UpdateWithoutSession ==
    /\ call.op = "updateUser" => call.pre.authState.user # Null
    /\ (done.op = "updateUser" /\ done.pre.authState.user = Null)
          => /\ storage = done.pre.storage
             /\ authState = done.pre.authState
             /\ done.error = "none"
             /\ ~done.thrown

\* C13 witness: an updateUser has just returned that was called with no user.
C13_Witness ==
    /\ done.op = "updateUser"
    /\ done.pre.authState.user = Null
    /\ done.args = [email |-> "A@x.com"]

\* C24: when register has made the session Authenticated, the new user is in
\* the registry, the credential is stored under the new id and the session
\* record holds that user; the session does not change while the writes are
\* under way, and a register one of whose writes failed leaves it as it was.
C24_RegisterWritesBeforeSession ==
    /\ (done.op = "register" /\ done.error = "none")
          => /\ authState.isAuthenticated /\ authState.user = done.newUser
             /\ \E i \in DOMAIN Registry : Registry[i] = done.newUser
             /\ getItem(storage, passwordKey(done.newUser.id)) = RawString(done.args.password)
             /\ getItem(storage, AUTH_STORAGE_KEY) = JSONstringify(done.newUser)
    /\ call.op = "register"
          => /\ authState.user = call.pre.authState.user
             /\ authState.isAuthenticated = call.pre.authState.isAuthenticated
    /\ (done.op = "register" /\ done.failed # {}) => SessionAsBefore

\* C24 witness: a register has just taken a session without a user to
\* Authenticated.
C24_Witness ==
    /\ done.op = "register" /\ done.error = "none"
    /\ ~done.pre.authState.isAuthenticated
    /\ authState.isAuthenticated

\* The session handlers with two people registering.
RegistrationNext ==
    \/ Next
    \/ RegisterSecond

RegistrationSpec == Init /\ [][RegistrationNext]_vars

\* C25: the ids register allocates are unique: the entries of the registry
\* have pairwise distinct ids, whatever the clock reads when register runs.
C25_RegistryIdsDistinct ==
    usersParse(getItem(storage, USERS_STORAGE_KEY))
       => \A i, j \in DOMAIN Registry : Registry[i].id = Registry[j].id => i = j

\* C26: no two entries of the registry have e-mails that are equal ignoring
\* case, after any sequence of initialize, register and updateUser.
C26_RegistryEmailsDistinct ==
    usersParse(getItem(storage, USERS_STORAGE_KEY))
       => \A i, j \in DOMAIN Registry :
             toLowerCase(Registry[i].email) = toLowerCase(Registry[j].email) => i = j

\* C28: once initialization has finished and no session operation is in
\* flight, the persisted session record is present if and only if the session
\* is Authenticated, and when present it equals the in-memory current user;
\* after any sequence of operations, failing storage operations and the
\* clear-all-data wipe included.
C28_SessionRecordMatchesSession ==
    (call = Idle /\ ~authState.isLoading)
       => LET userData == getItem(storage, AUTH_STORAGE_KEY) IN
          /\ (userData # Null) <=> authState.isAuthenticated
          /\ userData # Null => userData = JSONstringify(authState.user)

(***************************************************************************)
(* The session handlers and the watchlist handlers on one store.  A later   *)
(* launch of the app: the store holds the seed account and the watchlists   *)
(* of earlier use.                                                          *)
(***************************************************************************)
usedStorage ==
    setItem(setItem(seededStorage,
                    "watchlist", JSONstringify(<<Spread(MovieX, [media_type |-> "movie"])>>)),
            "tvWatchlist", JSONstringify(<<Spread(TVShowY, [media_type |-> "tv"])>>))

AppInit ==
    /\ storage = usedStorage
    /\ authState = initialState
    /\ call = InitializeCall(storage, initialState)
    /\ done = NoResult
    /\ registered = Null
    /\ seedWrites = [users |-> 1, password |-> 1]
    /\ restarts = 0
    /\ calls = 0
    /\ isInWatchlist = initialIsInWatchlist
    /\ watchlistScreen = initialWatchlistScreen
    /\ profileScreen = initialProfileScreen
    /\ pending = Idle

\* toggle, list, remove and clear of the watchlist screens.
WatchlistStoreNext ==
    \/ ToggleWatchlist
    \/ ToggleGetItem
    \/ ToggleSetItem
    \/ LoadWatchlist
    \/ LoadGetItems
    \/ RemoveFromWatchlist
    \/ RemoveGetItem
    \/ RemoveSetItem
    \/ ClearWatchlist
    \/ ClearRemoveMovies
    \/ ClearRemoveTv

\* Both kinds of handlers, within the budget of MaxCalls calls in all.
AppNext ==
    \/ Next
    \/ WatchlistStoreNext /\ calls' <= MaxCalls

AppSpec == AppInit /\ [][AppNext]_vars

(***************************************************************************)
(* Two handlers in flight.  A handler awaits a storage call; while it waits  *)
(* the interface can call another handler, and the storage calls of the two  *)
(* complete in any order.  The handler that runs changes place with the one  *)
(* that waits.                                                               *)
(***************************************************************************)
\* The handlers whose steps are interleaved: logout with updateUser, and the
\* toggles of the cards and detail screens with each other.
Interleaved == {"idle", "logout", "updateUser", "toggleWatchlist"}

Interleave ==
    /\ call # Idle \/ pending # Idle
    /\ {call.op, pending.op} \subseteq Interleaved
    /\ call' = pending
    /\ pending' = call
    /\ done' = NoResult
    /\ UNCHANGED <<storage, authState, registered, seedWrites, restarts, calls, screens>>

SessionRaceNext ==
    \/ Next
    \/ Interleave

SessionRaceSpec == Init /\ [][SessionRaceNext]_vars

\* The toggles of the cards and detail screens, two of them in flight at most,
\* within the budget of MaxCalls calls.
WatchlistRaceNext ==
    \/ ToggleWatchlist /\ calls' <= MaxCalls
    \/ ToggleGetItem
    \/ ToggleSetItem
    \/ Interleave

WatchlistRaceSpec == WatchlistInit /\ [][WatchlistRaceNext]_vars

\* C29: once a logout has completed (no user in memory, no session record)
\* and no login or register follows, auth_user stays absent, so that the next
\* initialize ends Unauthenticated; for every interleaving of the steps of
\* the logout with those of an updateUser started while the user was present.
C29_LoggedOutStaysLoggedOut ==
    [][ ( /\ authState.user = Null
          /\ getItem(storage, AUTH_STORAGE_KEY) = Null
          /\ call.op \notin {"login", "register"} )
        => getItem(storage', AUTH_STORAGE_KEY) = Null ]_vars

(***************************************************************************)
(* Properties of the watchlist                                              *)
(***************************************************************************)
\* The persisted collection under a key, read as the handlers read it.
Collection(store, key) ==
    IF arrayParses(getItem(store, key)) THEN parseArray(getItem(store, key)) ELSE <<>>

\* Persisted membership of an id in the collection under a key.
IsMember(store, key, id) == some(Collection(store, key), id)

\* The entries of a sequence as a bag: how often each entry occurs.
Entries(array) ==
    [e \in {array[i] : i \in DOMAIN array} |->
        Cardinality({i \in DOMAIN array : array[i] = e})]

WatchlistKeys == {"watchlist", "tvWatchlist"}

\* C14: each persisted watchlist collection holds at most one entry per id,
\* under any sequence of toggles from the card, the movie detail screen and the
\* TV detail screen, mixed with removes and clears.
C14_AtMostOneEntryPerId ==
    \A key \in WatchlistKeys :
        \A i, j \in DOMAIN Collection(storage, key) :
            Collection(storage, key)[i].id = Collection(storage, key)[j].id => i = j

\* The media type of the collection under a key.
MediaTypeOf(key) == IF key = "tvWatchlist" THEN "tv" ELSE "movie"

\* C15: a toggle acts on the persisted membership at the time of the call: it
\* removes the entry when the id is a member, and appends the item tagged with
\* its media type when it is not; the membership it reports (the flag of the
\* component) is the new persisted membership.
C15_ToggleActsOnPersistedMembership ==
    (done.op = "toggleWatchlist" /\ done.error = "none")
    => LET c == done.component
           key == watchlistKey(c)
           before == Collection(done.pre.storage, key)
       IN /\ IF some(before, c.item.id)
             THEN Collection(storage, key) = filterOutId(before, c.item.id)
             ELSE Collection(storage, key) =
                      Append(before, Spread(c.item, [media_type |-> MediaTypeOf(key)]))
          /\ isInWatchlist[c] = IsMember(storage, key, c.item.id)

\* C16: toggle is an involution.  Two toggles in succession of the same id in
\* the same collection restore the membership and the entries of the
\* collection (order aside); on an empty movie collection the first toggle of
\* id 42 leaves exactly one entry, of id 42, and the second leaves none.
C16_ToggleInvolution ==
    /\ ( /\ done.op = "toggleWatchlist" /\ done.error = "none"
         /\ done.prev # NoResult
         /\ watchlistKey(done.prev.component) = watchlistKey(done.component)
         /\ done.prev.component.item.id = done.component.item.id )
       => LET key == watchlistKey(done.component)
              id == done.component.item.id
          IN /\ IsMember(storage, key, id) = IsMember(done.prev.pre.storage, key, id)
             /\ Entries(Collection(storage, key)) = Entries(Collection(done.prev.pre.storage, key))
    /\ ( /\ done.op = "toggleWatchlist" /\ done.error = "none"
         /\ watchlistKey(done.component) = "watchlist"
         /\ done.component.item.id = 42
         /\ Collection(done.pre.storage, "watchlist") = <<>> )
       => /\ Len(Collection(storage, "watchlist")) = 1
          /\ IsMember(storage, "watchlist", 42)

\* list('all'): what the watchlist screen shows under the filter 'all'.
ListAll == filteredWatchlist([watchlistScreen EXCEPT !.activeWatchlistType = "all"])

\* Entry e lists the stored entry x under media type t: x's fields, annotated.
Lists(e, x, t) ==
    /\ e.media_type = t
    /\ DOMAIN e = DOMAIN x \cup {"media_type"}
    /\ \A f \in DOMAIN x \ {"media_type"} : e[f] = x[f]

\* C17: list('all') returns the entries of the persisted movie collection
\* followed by those of the persisted TV collection, each annotated with the
\* media type of its collection and none dropped: its length is the sum of the
\* two sizes and an id present in both collections is listed once per type.
C17_ListAll ==
    (done.op = "loadWatchlist" /\ done.error = "none")
    => LET movies == Collection(storage, "watchlist")
           tv == Collection(storage, "tvWatchlist")
       IN /\ Len(ListAll) = Len(movies) + Len(tv)
          /\ \A i \in DOMAIN movies : Lists(ListAll[i], movies[i], "movie")
          /\ \A j \in DOMAIN tv : Lists(ListAll[Len(movies) + j], tv[j], "tv")
          /\ \A i \in DOMAIN movies : \A j \in DOMAIN tv :
                 movies[i].id = tv[j].id =>
                    /\ ListAll[i].id = movies[i].id /\ ListAll[i].media_type = "movie"
                    /\ ListAll[Len(movies) + j].id = tv[j].id
                    /\ ListAll[Len(movies) + j].media_type = "tv"

\* C17 witness: a listing has just been loaded from a movie collection and a
\* TV collection that both hold id 5.
C17_Witness ==
    /\ done.op = "loadWatchlist" /\ done.error = "none"
    /\ IsMember(storage, "watchlist", 5)
    /\ IsMember(storage, "tvWatchlist", 5)
    /\ Len(ListAll) = 2

\* Every key but `key` holds in the store what it held when the call was made.
OnlyKeyChanged(key) ==
    /\ DOMAIN storage \ {key} = DOMAIN done.pre.storage \ {key}
    /\ \A k \in DOMAIN storage \ {key} : storage[k] = done.pre.storage[k]

\* C18: remove(id, mediaType) removes the entry with that id from the
\* collection of that media type only.  The other collection is unchanged even
\* when it holds the same id, the other entries of the targeted collection are
\* kept, and an id that is not in the targeted collection is no error (only a
\* rejecting storage call fails a remove) and leaves the entries unchanged.
C18_RemoveTargetedOnly ==
    done.op = "removeFromWatchlist"
    => LET key == IF done.mediaType = "movie" THEN "watchlist" ELSE "tvWatchlist"
           before == Collection(done.pre.storage, key)
           after == Collection(storage, key)
       IN /\ OnlyKeyChanged(key)
          /\ done.failed \subseteq {"getItem", "setItem"}
          /\ done.failed # {} => storage = done.pre.storage
          /\ done.failed = {} =>
                /\ done.error = "none"
                /\ ~some(after, done.id)
                /\ after = SelectSeq(before, LAMBDA item : item.id # done.id)
                /\ ~some(before, done.id) => after = before

\* C18 witness: a remove of movie 5 has just succeeded while the TV collection
\* holds id 5 too and the movie collection holds another entry.
C18_Witness ==
    /\ done.op = "removeFromWatchlist" /\ done.error = "none"
    /\ done.id = 5 /\ done.mediaType = "movie"
    /\ IsMember(done.pre.storage, "watchlist", 5)
    /\ IsMember(done.pre.storage, "watchlist", 42)
    /\ IsMember(storage, "tvWatchlist", 5)

\* The entries of a media type in a list, in order.
OfType(list, t) == SelectSeq(list, LAMBDA item : item.media_type = t)

\* C19: clear(scope) deletes the persisted movie collection exactly when the
\* scope is 'movies' or 'all' and the persisted TV collection exactly when it
\* is 'tv' or 'all'; a collection that is not targeted is unchanged; after a
\* clear that completes, the in-memory list of the watchlist screen holds no
\* entry of a cleared type and every entry of a type that was not cleared.
C19_ClearScope ==
    done.op = "clearWatchlist"
    => LET scope == done.activeWatchlistType
           movies == scope \in {"movies", "all"}
           tv == scope \in {"tv", "all"}
           before == done.pre.watchlistScreen.watchlist
           list == watchlistScreen.watchlist
       IN /\ DOMAIN storage \ WatchlistKeys = DOMAIN done.pre.storage \ WatchlistKeys
          /\ \A k \in DOMAIN storage \ WatchlistKeys : storage[k] = done.pre.storage[k]
          /\ ~movies => getItem(storage, "watchlist") = getItem(done.pre.storage, "watchlist")
          /\ ~tv => getItem(storage, "tvWatchlist") = getItem(done.pre.storage, "tvWatchlist")
          /\ done.error = "none" =>
                /\ movies => "watchlist" \notin DOMAIN storage /\ OfType(list, "movie") = <<>>
                /\ tv => "tvWatchlist" \notin DOMAIN storage /\ OfType(list, "tv") = <<>>
                /\ ~movies => OfType(list, "movie") = OfType(before, "movie")
                /\ ~tv => OfType(list, "tv") = OfType(before, "tv")

\* C19 witness: a clear of scope 'tv' has just completed; it deleted a TV
\* collection that held an entry and left a movie collection that holds one.
C19_Witness ==
    /\ done.op = "clearWatchlist" /\ done.error = "none"
    /\ done.activeWatchlistType = "tv"
    /\ Collection(done.pre.storage, "tvWatchlist") # <<>>
    /\ "tvWatchlist" \notin DOMAIN storage
    /\ Collection(storage, "watchlist") # <<>>
    /\ OfType(watchlistScreen.watchlist, "movie") # <<>>

\* The value under a key is text that does not parse.
Corrupt(store, key) == getItem(store, key) # Null /\ ~JSONparses(getItem(store, key))

\* The watchlist keys a completed read handler has read.
KeysRead ==
    CASE done.op = "loadWatchlist" -> WatchlistKeys
      [] done.op = "checkWatchlistStatus" -> {watchlistKey(done.component)}
      [] done.op = "loadProfileData" -> {"watchlist"}
      [] OTHER -> {}

\* C20: when the value under a watchlist key is corrupt, every read of it (the
\* listing of the watchlist screen, the membership check of a card or a detail
\* screen, the statistics of the profile screen) treats it as an empty
\* collection, and after the read the stored value is a valid empty collection.
C20_CorruptReadRepairs ==
    \A key \in KeysRead :
        (Corrupt(done.pre.storage, key) /\ done.failed \cap {"getItem", "removeItem"} = {})
        => /\ ~Corrupt(storage, key)
           /\ Collection(storage, key) = <<>>
           /\ done.op = "loadWatchlist" =>
                 OfType(watchlistScreen.watchlist, MediaTypeOf(key)) = <<>>
           /\ done.op = "checkWatchlistStatus" => ~isInWatchlist[done.component]
           /\ done.op = "loadProfileData" => profileScreen.watchlistStats = emptyStats

\* C21: when the storage write of a toggle fails, the failure is reported (the
\* call ends in its error branch), the persisted collection is unchanged and
\* the membership flag of the screen keeps the value it had before the call.
\* While the toggle is in flight the flag has not been flipped.
C21_ToggleWriteFailure ==
    /\ call.op = "toggleWatchlist" => isInWatchlist = call.pre.isInWatchlist
    /\ (done.op = "toggleWatchlist" /\ "setItem" \in done.failed)
          => /\ done.error = StorageError
             /\ storage = done.pre.storage
             /\ isInWatchlist = done.pre.isInWatchlist

\* C21 witness: the write of a toggle that would have added movie 42 has just
\* been rejected.
C21_Witness ==
    /\ done.op = "toggleWatchlist" /\ "setItem" \in done.failed
    /\ done.component.item.id = 42
    /\ done.watchlistArray # <<>>
    /\ ~isInWatchlist[done.component]

\* C22: every screen that shows watchlist state re-reads the persisted
\* collection on every focus event: once the handling of a focus event has
\* completed, with no mutation since, the list of the watchlist screen lists
\* the persisted collections and the flag of a card or of a detail screen is
\* the persisted membership of its item.
C22_RereadOnFocus ==
    /\ (done.op = "loadWatchlist" /\ done.error = "none")
          => /\ OfType(watchlistScreen.watchlist, "movie")
                   = annotate(Collection(storage, "watchlist"), "movie")
             /\ OfType(watchlistScreen.watchlist, "tv")
                   = annotate(Collection(storage, "tvWatchlist"), "tv")
    /\ done.op = "focus"
          => isInWatchlist[done.component]
                = IsMember(storage, watchlistKey(done.component), done.component.item.id)

SessionOps == {"initializeApp", "login", "register", "logout", "updateUser"}
WatchlistOps == {"toggleWatchlist", "removeFromWatchlist", "clearWatchlist", "loadWatchlist",
                 "checkWatchlistStatus"}

\* Two stores hold the same values under the keys of K.
SameUnder(K, s1, s2) ==
    /\ DOMAIN s1 \cap K = DOMAIN s2 \cap K
    /\ \A k \in DOMAIN s1 \cap K : s1[k] = s2[k]

\* The keys of the session store: auth_user, registered_users, password_<id>.
SessionKeys(s1, s2) == (DOMAIN s1 \cup DOMAIN s2) \ WatchlistKeys

\* C23: no operation spans both stores.  initialize, login, register, logout
\* and updateUser never change the values under watchlist and tvWatchlist
\* (at no step, and not when they fail); toggle, remove, clear and the listing
\* never change auth_user, registered_users or a password_<id> key; so both
\* collections are the same before a logout and after the login or the
\* registration of another account that follows it.
C23_NoOperationSpansBothStores ==
    /\ call.op \in SessionOps => SameUnder(WatchlistKeys, storage, call.pre.storage)
    /\ done.op \in SessionOps => SameUnder(WatchlistKeys, storage, done.pre.storage)
    /\ call.op \in WatchlistOps
          => SameUnder(SessionKeys(storage, call.pre.storage), storage, call.pre.storage)
    /\ done.op \in WatchlistOps
          => SameUnder(SessionKeys(storage, done.pre.storage), storage, done.pre.storage)
    /\ ( /\ done.op \in {"login", "register"} /\ done.error = "none"
         /\ done.prev # NoResult )
       => SameUnder(WatchlistKeys, storage, done.prev.pre.storage)

\* C23 witness: a registration has just succeeded right after the logout of
\* another account, on a store that holds both watchlists.
C23_Witness ==
    /\ done.op = "register" /\ done.error = "none"
    /\ done.prev # NoResult
    /\ done.prev.pre.authState.user # Null
    /\ done.prev.pre.authState.user.id # authState.user.id
    /\ Collection(storage, "watchlist") # <<>>
    /\ Collection(storage, "tvWatchlist") # <<>>

\* C23 as stated, for every operation of the application: a completed
\* operation has left at least one of the two stores as it found it.  The
\* profile screen's clearAllData (AsyncStorage.clear()) empties both.
C23_EveryOperationKeepsOneStore ==
    done.op \in SessionOps \cup WatchlistOps \cup {"clearAllData"}
       => \/ SameUnder(WatchlistKeys, storage, done.pre.storage)
          \/ SameUnder(SessionKeys(storage, done.pre.storage), storage, done.pre.storage)

\* C27: after every successful toggle the flag of the screen that toggled
\* equals the persisted membership of its item, whatever the flag was before
\* the toggle (a flag that disagreed with the store included).
C27_FlagFollowsStore ==
    (done.op = "toggleWatchlist" /\ done.error = "none")
       => isInWatchlist[done.component]
             = IsMember(storage, watchlistKey(done.component), done.component.item.id)

\* C27 witness: a toggle has just succeeded that was started with a flag that
\* disagreed with the store (the item was stored, the flag said it was not).
C27_Witness ==
    /\ done.op = "toggleWatchlist" /\ done.error = "none"
    /\ ~done.pre.isInWatchlist[done.component]
    /\ IsMember(done.pre.storage, watchlistKey(done.component), done.component.item.id)

\* C30: no update of a watchlist collection is lost.  A toggle that completes
\* changes the membership of its own id only, so that of two toggles of
\* different ids on the same collection that both completed the collection
\* reflects both, for every interleaving of their steps.
C30_NoLostUpdate ==
    [][ (call.op = "toggleWatchlist" /\ done'.op = "toggleWatchlist" /\ done'.error = "none")
        => LET key == watchlistKey(call.component) IN
           \A id \in {c.item.id : c \in Components} \ {call.component.item.id} :
              IsMember(storage', key, id) = IsMember(storage, key, id) ]_vars

====
